---- MODULE Spec2Model ----
(***************************************************************************)
(* Grab / release / throw state machine of the 3d-webgallery WebXR viewer  *)
(* (src/src/main.ts): two controllers, the grabbable entities with their   *)
(* physics bodies, the per-frame synchronisation pass, reset, teleport     *)
(* aiming and the XR session life cycle.                                   *)
(*                                                                         *)
(* Geometry is modelled on the vertical axis: a position is one            *)
(* coordinate, an orientation is an angle about that axis counted modulo   *)
(* QuatMod.  Every vector operation of the source is component-wise, so    *)
(* one component carries the copy / subtract / divide structure.           *)
(***************************************************************************)
EXTENDS Integers, Sequences, FiniteSets, TLC

\* ---------------------------------------------------------------- bounds
MaxDt == 2
MaxEvents == 5
MaxLeftEvents == 7
MaxModels == 7
MaxDesktopEvents == 7

RECURSIVE Gcd(_, _)
Gcd(a, b) == IF b = 0 THEN a ELSE Gcd(b, a % b)

RECURSIVE LcmUpTo(_)
LcmUpTo(n) == IF n <= 1 THEN 1 ELSE (LcmUpTo(n - 1) * n) \div Gcd(LcmUpTo(n - 1), n)

\* Controller positions lie on a grid on which every quotient by a frame
\* time 1..MaxDt is exact.
Grid == LcmUpTo(MaxDt)
Quats == {0, 1}
QuatMod == Cardinality(Quats)
DeltaTimes == 0..MaxDt

\* Pull of the gravity vector per fixed time step, in grid units.
Gravity == Grid

\* ------------------------------------------------- JavaScript numbers
\* A number is finite, +Infinity / -Infinity, or NaN.
Fin(n) == [k |-> "fin", n |-> n]
PosInf == [k |-> "inf", n |-> 1]
NegInf == [k |-> "inf", n |-> -1]
NaN == [k |-> "nan", n |-> 0]
Zero == Fin(0)
IsFinite(a) == a.k = "fin"

NumNeg(a) == [k |-> a.k, n |-> 0 - a.n]

NumAdd(a, b) ==
    IF a.k = "nan" \/ b.k = "nan" THEN NaN
    ELSE IF a.k = "fin" /\ b.k = "fin" THEN Fin(a.n + b.n)
    ELSE IF a.k = "fin" THEN b
    ELSE IF b.k = "fin" THEN a
    ELSE IF a.n = b.n THEN a ELSE NaN

NumSub(a, b) == NumAdd(a, NumNeg(b))

\* a / d for a frame time d >= 0 (Vector3.divideScalar).
NumDiv(a, d) ==
    IF a.k = "nan" THEN NaN
    ELSE IF a.k = "inf" THEN a
    ELSE IF d = 0 THEN (IF a.n = 0 THEN NaN ELSE IF a.n > 0 THEN PosInf ELSE NegInf)
    ELSE Fin(a.n \div d)

\* Orientations compose by addition modulo QuatMod.
QuatMul(p, q) == (p + q) % QuatMod
QuatInv(q) == (QuatMod - q) % QuatMod

\* ------------------------------------------------------- scene graph
controller1 == "controller1"
controller2 == "controller2"
Controllers == {controller1, controller2}
ControllerOrder == <<controller1, controller2>>

visualMeshes == <<"E1", "E2">>
physicsBodies == <<"B1", "B2">>
Entities == {visualMeshes[i] : i \in 1..Len(visualMeshes)}
Bodies == {physicsBodies[i] : i \in 1..Len(physicsBodies)}
Null == "null"
scene == "scene"

KINEMATIC == "KINEMATIC"
DYNAMIC == "DYNAMIC"
AWAKE == "AWAKE"

\* A loaded model: the top-level group, a mesh child with a mesh nested in
\* it, a line child (hit by rays, not a mesh), and a non-mesh group holding a
\* nested mesh.
Parts == {"root", "mesh", "innermesh", "line", "group", "submesh"}
Node(o, p) == [owner |-> o, part |-> p]
Root(e) == Node(e, "root")
NoHit == Node(Null, "root")
EntityNodes == {Node(e, p) : e \in Entities, p \in Parts}
IsMesh(n) == n.part \in {"mesh", "innermesh", "submesh"}
Raycastable(n) == n.part \in {"mesh", "innermesh", "submesh", "line"}
Children(e) == {Node(e, "mesh"), Node(e, "line"), Node(e, "group")}

IndexOf(e) == CHOOSE i \in 1..Len(visualMeshes) : visualMeshes[i] = e
BodyAt(e) == physicsBodies[IndexOf(e)]
EntityAt(b) == visualMeshes[CHOOSE i \in 1..Len(physicsBodies) : physicsBodies[i] = b]

physicsMap_Crossed ==
    [n \in {m \in EntityNodes : m.part = "root" \/ IsMesh(m)} |->
        IF n.part = "root" THEN BodyAt(n.owner) ELSE physicsBodies[1]]

\* physicsMap as the load callbacks leave it: uuid of the model and of every
\* mesh below it -> body.  The variable registry is the map during the run.
physicsMap == [n \in {m \in EntityNodes : m.part = "root" \/ IsMesh(m)} |-> BodyAt(n.owner)]

\* Placement at load time: the body sits at the bounding-box centre, the
\* model origin lies `center' below it.
initialBodyY == [e \in Entities |-> IF e = "E1" THEN 1 ELSE 2]
boxCenter == [e \in Entities |-> IF e = "E1" THEN 0 ELSE 1]
initialTransforms ==
    [i \in 1..Len(physicsBodies) |->
        [position |-> Fin(initialBodyY[visualMeshes[i]]), quaternion |-> 0]]

VARIABLES
    presenting,
    isTeleportAiming,
    teleportTargetPosition,
    teleportMarkerVisible,
    ctrl,
    meshes,
    bodies,
    grabbedObjects,
    controllerLastPosition,
    controllerVelocity,
    registry,
    loading,
    isLocked,
    moveState,
    rigPosition,
    lockRequest,
    last,
    hist,
    steps

vars == <<presenting, isTeleportAiming, teleportTargetPosition, teleportMarkerVisible,
          ctrl, meshes, bodies, grabbedObjects, controllerLastPosition,
          controllerVelocity, registry, loading, isLocked, moveState, rigPosition,
          lockRequest, last, hist, steps>>

EmptyMap == [c \in {} |-> Null]

\* The event handled last: which handler ran, for which controller, the body
\* its ray resolved to, whether a grab record was created, the entity that
\* was released, whether a teleport was performed, and what is known of the
\* released controller's hold (see hist).
Event(op, c, target, ok, released, teleported, note) ==
    [op |-> op, c |-> c, target |-> target, ok |-> ok, released |-> released,
     teleported |-> teleported, note |-> note]
NoEvent(op, c) == Event(op, c, Null, FALSE, Null, FALSE, {})

\* History of the run, read by the properties only:
\*   frames[c]  frame passes (counted up to 2) since c's grab record was made,
\*   dt, prev   frame time of the latest frame pass and each holding
\*              controller's position before it (0 while nobody holds),
\*   contended  held bodies another, idle controller has tried to grab,
\*   dropped    controllers whose record a reset or session end removed and
\*              that have handled no select event since,
\*   squeeze    the left controller's squeeze is down: squeezestart was
\*              handled and neither squeezeend nor a session end came since.
NoFrames == [c \in Controllers |-> 0]
NoHistory == [frames |-> NoFrames, dt |-> 0, prev |-> NoFrames,
              contended |-> {}, dropped |-> {}, squeeze |-> FALSE]

\* hist with controller c's hold forgotten.
Forget(h, cs) ==
    LET fr == [c \in Controllers |-> IF c \in cs THEN 0 ELSE h.frames[c]]
        any == \E c \in Controllers : fr[c] > 0
    IN [h EXCEPT !.frames = fr,
                 !.dt = IF any THEN h.dt ELSE 0,
                 !.prev = [c \in Controllers |-> IF fr[c] > 0 THEN h.prev[c] ELSE 0]]

\* ------------------------------------------------------- model loading
\* Lengths in half metres: modelSpacing is 1.5 m, the first row lies at
\* z = -2 m.
modelSpacing == 3
modelsPerRow == 5
FirstRowZ == 0 - 4
FirstColumnX == 0 - (((modelsPerRow - 1) * modelSpacing) \div 2)

\* modelPaths, by index.
modelPaths == 1..MaxModels

\* The uuid of the model loaded from path i and of a mesh below it.
ModelUuid(i) == [gltf |-> i, part |-> "root"]
MeshUuid(i) == [gltf |-> i, part |-> "mesh"]

\* The variable loading before any load callback has run: the three lists
\* and the map empty, the grid cursor on the first slot, every load pending.
LoadStart ==
    [pending |-> modelPaths,
     visualMeshes |-> <<>>,
     physicsBodies |-> <<>>,
     initialTransforms |-> <<>>,
     physicsMap |-> [u \in {} |-> Null],
     currentX |-> FirstColumnX,
     currentZ |-> FirstRowZ,
     modelsInRow |-> 0]

NextSlot_Stay(l) == l

\* Update positioning for next model.
NextSlot(l) ==
    IF l.modelsInRow + 1 >= modelsPerRow
    THEN [l EXCEPT !.modelsInRow = 0,
                   !.currentX = FirstColumnX,
                   !.currentZ = l.currentZ - modelSpacing]
    ELSE [l EXCEPT !.modelsInRow = l.modelsInRow + 1,
                   !.currentX = l.currentX + modelSpacing]

\* The success callback of loader.load for path i, on loading state l.
onLoad(l, i) ==
    LET model == [gltf |-> i, x |-> l.currentX, z |-> l.currentZ]
        body == [gltf |-> i, x |-> model.x, z |-> model.z]
        registered == {ModelUuid(i), MeshUuid(i)}
    IN NextSlot(
         [l EXCEPT !.pending = @ \ {i},
                   !.visualMeshes = Append(@, model),
                   !.physicsBodies = Append(@, body),
                   !.initialTransforms = Append(@, [x |-> body.x, z |-> body.z]),
                   !.physicsMap = [u \in DOMAIN @ \cup registered |->
                                      IF u \in registered THEN body ELSE @[u]]])

\* The error callback of loader.load for path i: the failure is logged.
onLoadError(l, i) == [l EXCEPT !.pending = @ \ {i}]

\* ------------------------------------------------- desktop locomotion
moveSpeed == 5

NoMove == [forward |-> 0, backward |-> 0, left |-> 0, right |-> 0]

\* A length r + i / sqrt(2) metres, r and i integers: moving along one axis
\* adds to r, moving diagonally (a normalised direction) adds to i.
Length(r, i) == [r |-> r, i |-> i]
LenAdd(a, b) == Length(a.r + b.r, a.i + b.i)
LenScale(a, k) == Length(a.r * k, a.i * k)

\* The camera rig where the page puts it, taken as the origin of the plane.
RigStart == [x |-> Length(0, 0), z |-> Length(0, 0)]

\* event.code values: the eight movement keys and one other key.
KeyCodes == {"KeyW", "ArrowUp", "KeyS", "ArrowDown", "KeyA", "ArrowLeft", "KeyD",
             "ArrowRight", "Space"}

\* The flag a key code switches ("none" for every other key).
KeyFlag(code) ==
    IF code \in {"KeyW", "ArrowUp"} THEN "backward"
    ELSE IF code \in {"KeyS", "ArrowDown"} THEN "forward"
    ELSE IF code \in {"KeyA", "ArrowLeft"} THEN "left"
    ELSE IF code \in {"KeyD", "ArrowRight"} THEN "right"
    ELSE "none"

SetFlag(code, value) ==
    IF KeyFlag(code) = "none" THEN moveState
    ELSE [moveState EXCEPT ![KeyFlag(code)] = value]

onKeyDown_Unguarded(code) == moveState' = SetFlag(code, 1)

onKeyDown(code) ==
    IF ~isLocked THEN UNCHANGED moveState
    ELSE moveState' = SetFlag(code, 1)

onKeyUp(code) ==
    IF ~isLocked THEN UNCHANGED moveState
    ELSE moveState' = SetFlag(code, 0)

\* pointerLockControls.lock() and unlock() ask the browser; isLocked changes
\* when the browser's pointerlockchange event arrives.
desktopClickListener ==
    lockRequest' = IF ~presenting THEN "lock" ELSE lockRequest

\* The 'unlock' listener.
onUnlock == moveState' = NoMove

\* Vector3.normalize of a direction with components in -1..1.
Normalize(x, z) ==
    IF x # 0 /\ z # 0
    THEN [x |-> Length(0, x), z |-> Length(0, z)]
    ELSE [x |-> Length(x, 0), z |-> Length(z, 0)]

\* PointerLockControls.moveRight and moveForward with the camera looking
\* down the negative z axis.
moveRight(position, distance) == [position EXCEPT !.x = LenAdd(@, distance)]
moveForward(position, distance) ==
    [position EXCEPT !.z = LenAdd(@, LenScale(distance, 0 - 1))]

\* The desktop movement block of animate.
DesktopMovement(deltaTime) ==
    IF isLocked
    THEN LET speed == moveSpeed * deltaTime
             dirZ == (IF moveState.forward # 0 THEN 0 - 1 ELSE 0)
                        + (IF moveState.backward # 0 THEN 1 ELSE 0)
             dirX == (IF moveState.left # 0 THEN 0 - 1 ELSE 0)
                        + (IF moveState.right # 0 THEN 1 ELSE 0)
             moveDirection == Normalize(dirX, dirZ)
         IN rigPosition' =
               moveForward(moveRight(rigPosition, LenScale(moveDirection.x, speed)),
                           LenScale(moveDirection.z, speed))
    ELSE UNCHANGED rigPosition

Init ==
    /\ presenting = FALSE
    /\ isTeleportAiming = FALSE
    /\ teleportTargetPosition = Null
    /\ teleportMarkerVisible = FALSE
    /\ ctrl = [c \in Controllers |-> [position |-> 0, quaternion |-> 0]]
    /\ meshes = [e \in Entities |->
                    [parent |-> scene,
                     position |-> Fin(initialBodyY[e] - boxCenter[e]),
                     quaternion |-> 0]]
    /\ bodies = [b \in Bodies |->
                    [type |-> DYNAMIC,
                     position |-> Fin(initialBodyY[EntityAt(b)]),
                     quaternion |-> 0,
                     velocity |-> Zero,
                     angularVelocity |-> 0,
                     sleepState |-> AWAKE]]
    /\ grabbedObjects = EmptyMap
    /\ controllerLastPosition = EmptyMap
    /\ controllerVelocity = EmptyMap
    /\ registry = physicsMap
    /\ loading = LoadStart
    /\ isLocked = FALSE
    /\ moveState = NoMove
    /\ rigPosition = RigStart
    /\ lockRequest = "none"
    /\ last = NoEvent("Init", Null)
    /\ hist = NoHistory
    /\ steps = 0


\* ------------------------------------------------ transforms (three.js)
SceneWorld == [position |-> Zero, quaternion |-> 0]

\* World transform of a controller or of the scene root; the controllers are
\* direct children of the scene.
ParentWorld(p) ==
    IF p = scene THEN SceneWorld
    ELSE [position |-> Fin(ctrl[p].position), quaternion |-> ctrl[p].quaternion]

\* World transform of an entity: parent world transform times local transform.
WorldOf(m) ==
    [position |-> NumAdd(ParentWorld(m.parent).position, m.position),
     quaternion |-> QuatMul(ParentWorld(m.parent).quaternion, m.quaternion)]

Attach_KeepLocal(m, newParent) == [m EXCEPT !.parent = newParent]

\* Object3D.attach: re-parent and rewrite the local transform as
\* inverse(new parent world) * (old world).
Attach(m, newParent) ==
    [parent |-> newParent,
     position |-> NumSub(WorldOf(m).position, ParentWorld(newParent).position),
     quaternion |-> QuatMul(QuatInv(ParentWorld(newParent).quaternion), WorldOf(m).quaternion)]

\* --------------------------------------------------- grabbing mechanics
\* The objects the explored rays meet first: a direct child mesh of a model
\* or a mesh below a group of it.
HitParts == {"mesh", "submesh"}

\* getIntersections: the objects hit by the controller's ray among
\* visualMeshes and their descendants, nearest first; what the ray hits is an
\* input: nothing, one object, or the mesh of one model with the mesh of
\* another model behind it.
getIntersections ==
    {<<>>}
    \cup {<<n>> : n \in {m \in EntityNodes : Raycastable(m) /\ m.part \in HitParts}}
    \cup {s \in {<<Node(e, "mesh"), Node(f, "mesh")>> : e \in Entities, f \in Entities} :
              s[1].owner # s[2].owner}

Nearest_Farthest(intersections) ==
    IF Len(intersections) > 0 THEN intersections[Len(intersections)]
    ELSE NoHit

Nearest_Unguarded(intersections) ==
    IF Len(intersections) > 0 THEN intersections[1]
    ELSE Node(visualMeshes[1], "mesh")

\* intersections.length > 0, intersections[0].object
Nearest(intersections) ==
    IF Len(intersections) > 0 THEN intersections[1] ELSE NoHit

ParentNode(n) ==
    IF n.owner = scene THEN NoHit
    ELSE IF n.owner \in Controllers THEN Node(scene, "root")
    ELSE IF n.part = "root" THEN Node(meshes[n.owner].parent, "root")
    ELSE IF n.part = "submesh" THEN Node(n.owner, "group")
    ELSE IF n.part = "innermesh" THEN Node(n.owner, "mesh")
    ELSE Root(n.owner)

\* physicsMap.get(uuid) ?? null, on the map as it is when the handler runs.
Lookup(n) == IF n \in DOMAIN registry THEN registry[n] ELSE Null

FindTopLevel_First(n) == visualMeshes[1]

\* visualMeshes.find(mesh => mesh.uuid === o.uuid || mesh.children.some(...))
FindTopLevel(n) ==
    LET matches == {i \in 1..Len(visualMeshes) :
                        n = Root(visualMeshes[i]) \/ n \in Children(visualMeshes[i])}
    IN IF matches = {} THEN Null
       ELSE visualMeshes[CHOOSE i \in matches : \A j \in matches : i <= j]

\* The while loop of onGrabStart, from the hit object up the ancestor chain.
RECURSIVE ResolveLoop(_, _)
ResolveLoop(intersectedObject, targetObject) ==
    LET targetBody == Lookup(intersectedObject)
        found == IF targetBody # Null THEN FindTopLevel(intersectedObject) ELSE targetObject
    IN IF targetBody # Null /\ found # Null
         THEN [object |-> found, body |-> targetBody]
       ELSE IF ParentNode(intersectedObject) = NoHit
         THEN [object |-> found, body |-> targetBody]
       ELSE ResolveLoop(ParentNode(intersectedObject), found)

ResolveTarget(hit) ==
    IF hit = NoHit THEN [object |-> Null, body |-> Null] ELSE ResolveLoop(hit, Null)

GrabGate_Never(controller) == FALSE

GrabGate_All(controller) == isTeleportAiming

GrabGate_AfterTeleport(controller) ==
    controller = controller1 /\ isTeleportAiming /\ teleportTargetPosition = Null

GrabGate(controller) == controller = controller1 /\ isTeleportAiming

AlreadyHolding_Never(controller) == FALSE

AlreadyHolding(controller) == controller \in DOMAIN grabbedObjects

AlreadyHeld_Never(targetBody) == FALSE

AlreadyHeld(targetBody) ==
    \E c \in DOMAIN grabbedObjects : grabbedObjects[c].body = targetBody

CanGrab(controller, hit) ==
    /\ ~GrabGate(controller)
    /\ ~AlreadyHolding(controller)
    /\ hit # NoHit
    /\ ResolveTarget(hit).object # Null
    /\ ResolveTarget(hit).body # Null
    /\ ~AlreadyHeld(ResolveTarget(hit).body)

\* Map.set / Map.delete
MapSet(map, key, value) ==
    [k \in (DOMAIN map) \cup {key} |-> IF k = key THEN value ELSE map[k]]
MapDelete_Clear(map, key) == EmptyMap

MapDelete(map, key) == [k \in (DOMAIN map) \ {key} |-> map[k]]

MakeKinematic_KeepSpin(body) ==
    [body EXCEPT !.type = KINEMATIC, !.velocity = Zero]

MakeKinematic(body) ==
    [body EXCEPT !.type = KINEMATIC, !.velocity = Zero, !.angularVelocity = 0]

GrabSample(controller) == ctrl[controller].position

onGrabStart(controller, hit) ==
    IF CanGrab(controller, hit)
    THEN LET target == ResolveTarget(hit) IN
         /\ grabbedObjects' = MapSet(grabbedObjects, controller, target)
         /\ bodies' = [bodies EXCEPT ![target.body] = MakeKinematic(@)]
         /\ meshes' = [meshes EXCEPT ![target.object] = Attach(@, controller)]
         /\ controllerLastPosition' =
                MapSet(controllerLastPosition, controller, GrabSample(controller))
         /\ controllerVelocity' = MapSet(controllerVelocity, controller, Zero)
    ELSE UNCHANGED <<grabbedObjects, bodies, meshes, controllerLastPosition,
                     controllerVelocity>>

\* type = DYNAMIC, wakeUp(), velocity.copy(controller velocity) when the
\* controller has a velocity entry.
ThrowBody_NoVelocity(body, controller) ==
    [body EXCEPT !.type = DYNAMIC, !.sleepState = AWAKE]

ThrowBody_Toss(body, controller) ==
    [body EXCEPT !.type = DYNAMIC, !.sleepState = AWAKE, !.velocity = Fin(1)]

ThrowBody_Spin(body, controller) ==
    [body EXCEPT !.type = DYNAMIC,
                 !.sleepState = AWAKE,
                 !.velocity = IF controller \in DOMAIN controllerVelocity
                              THEN controllerVelocity[controller] ELSE @,
                 !.angularVelocity = IF controller \in DOMAIN controllerVelocity
                                        /\ controllerVelocity[controller] # Zero
                                     THEN 1 ELSE @]

ThrowBody(body, controller) ==
    [body EXCEPT !.type = DYNAMIC,
                 !.sleepState = AWAKE,
                 !.velocity = IF controller \in DOMAIN controllerVelocity
                              THEN controllerVelocity[controller] ELSE @]

NoRecord == [object |-> Null, body |-> Null]

GrabbedBy_Any(controller) ==
    IF controller \in DOMAIN grabbedObjects THEN grabbedObjects[controller]
    ELSE IF DOMAIN grabbedObjects # {}
    THEN grabbedObjects[CHOOSE c \in DOMAIN grabbedObjects : TRUE]
    ELSE NoRecord

\* grabbedObjects.get(controller)
GrabbedBy(controller) ==
    IF controller \in DOMAIN grabbedObjects THEN grabbedObjects[controller]
    ELSE NoRecord

onGrabEnd_KeepSamples(controller) ==
    IF GrabbedBy(controller) # NoRecord
    THEN LET grabbed == GrabbedBy(controller) IN
         /\ meshes' = [meshes EXCEPT ![grabbed.object] = Attach(@, scene)]
         /\ bodies' = [bodies EXCEPT ![grabbed.body] = ThrowBody(@, controller)]
         /\ grabbedObjects' = MapDelete(grabbedObjects, controller)
         /\ UNCHANGED <<controllerLastPosition, controllerVelocity>>
    ELSE UNCHANGED <<grabbedObjects, bodies, meshes, controllerLastPosition,
                     controllerVelocity>>

onGrabEnd(controller) ==
    IF GrabbedBy(controller) # NoRecord
    THEN LET grabbed == GrabbedBy(controller) IN
         /\ meshes' = [meshes EXCEPT ![grabbed.object] = Attach(@, scene)]
         /\ bodies' = [bodies EXCEPT ![grabbed.body] = ThrowBody(@, controller)]
         /\ grabbedObjects' = MapDelete(grabbedObjects, controller)
         /\ controllerLastPosition' = MapDelete(controllerLastPosition, controller)
         /\ controllerVelocity' = MapDelete(controllerVelocity, controller)
    ELSE UNCHANGED <<grabbedObjects, bodies, meshes, controllerLastPosition,
                     controllerVelocity>>

\* ------------------------------------------------------------ teleport
onTeleportAimStart == isTeleportAiming' = TRUE

onTeleportAimEnd ==
    /\ isTeleportAiming' = FALSE
    /\ teleportMarkerVisible' = FALSE
    /\ teleportTargetPosition' = Null

WillTeleport == isTeleportAiming /\ teleportTargetPosition # Null

onTeleportSelect ==
    IF WillTeleport
    THEN /\ isTeleportAiming' = FALSE
         /\ teleportMarkerVisible' = FALSE
         /\ teleportTargetPosition' = Null
    ELSE UNCHANGED <<isTeleportAiming, teleportMarkerVisible, teleportTargetPosition>>

\* ---------------------------------------------------------------- reset
ResetBody_KeepType(b) ==
    LET i == CHOOSE j \in 1..Len(physicsBodies) : physicsBodies[j] = b
    IN [bodies[b] EXCEPT !.position = initialTransforms[i].position,
                         !.quaternion = initialTransforms[i].quaternion,
                         !.velocity = Zero,
                         !.angularVelocity = 0,
                         !.sleepState = AWAKE]

\* The state resetObjects works on.
ResetState ==
    [bodies |-> bodies, meshes |-> meshes, grabbedObjects |-> grabbedObjects,
     controllerLastPosition |-> controllerLastPosition,
     controllerVelocity |-> controllerVelocity]

\* physicsBodies.forEach: one body takes its initial transform.
SnapshotBody(body, i) ==
    [body EXCEPT !.position = initialTransforms[i].position,
                 !.quaternion = initialTransforms[i].quaternion,
                 !.velocity = Zero,
                 !.angularVelocity = 0,
                 !.sleepState = AWAKE]

\* The three statements of resetObjects, each on the state the one before
\* left: "snapshot" the bodies, "release" what the grab records hold,
\* "clear" the three maps.
ResetStage(name, st) ==
    IF name = "snapshot"
    THEN [st EXCEPT !.bodies =
            [b \in Bodies |->
                SnapshotBody(st.bodies[b],
                             CHOOSE j \in 1..Len(physicsBodies) : physicsBodies[j] = b)]]
    ELSE IF name = "release"
    THEN [st EXCEPT
            !.meshes =
               [e \in Entities |->
                   IF \E c \in DOMAIN st.grabbedObjects : st.grabbedObjects[c].object = e
                   THEN Attach(st.meshes[e], scene) ELSE st.meshes[e]],
            !.bodies =
               [b \in Bodies |->
                   IF \E c \in DOMAIN st.grabbedObjects : st.grabbedObjects[c].body = b
                   THEN [st.bodies[b] EXCEPT !.type = DYNAMIC] ELSE st.bodies[b]]]
    ELSE [st EXCEPT !.grabbedObjects = EmptyMap,
                    !.controllerLastPosition = EmptyMap,
                    !.controllerVelocity = EmptyMap]

resetObjectsOrder_ClearFirst == <<"clear", "snapshot", "release">>

\* The statements of resetObjects in program order.
resetObjectsOrder == <<"snapshot", "release", "clear">>

\* The stages of `order' from the i-th on, run on st.
RECURSIVE RunStages(_, _, _)
RunStages(st, order, i) ==
    IF i > Len(order) THEN st
    ELSE RunStages(ResetStage(order[i], st), order, i + 1)

\* The state the stage `name' of `order' starts from.
RECURSIVE StateBefore(_, _, _, _)
StateBefore(name, st, order, i) ==
    IF i > Len(order) \/ order[i] = name THEN st
    ELSE StateBefore(name, ResetStage(order[i], st), order, i + 1)

ResetBody(b) == RunStages(ResetState, resetObjectsOrder, 1).bodies[b]

ResetMesh(e) == RunStages(ResetState, resetObjectsOrder, 1).meshes[e]

resetObjects ==
    /\ bodies' = [b \in Bodies |-> ResetBody(b)]
    /\ meshes' = [e \in Entities |-> ResetMesh(e)]
    /\ grabbedObjects' = RunStages(ResetState, resetObjectsOrder, 1).grabbedObjects
    /\ controllerLastPosition' =
          RunStages(ResetState, resetObjectsOrder, 1).controllerLastPosition
    /\ controllerVelocity' =
          RunStages(ResetState, resetObjectsOrder, 1).controllerVelocity


\* ------------------------------------------------------- physics step
\* One fixed time step of the rigid-body simulator for one body: gravity
\* acts on dynamic bodies, velocities are integrated into the transform,
\* and the ground plane at height 0 stops a falling body (an impact from
\* above leaves it spinning, resting contact stops the spin).
IntegrateBody(body) ==
    LET v1 == IF body.type = DYNAMIC THEN NumAdd(body.velocity, Fin(0 - Gravity))
              ELSE body.velocity
        p1 == NumAdd(body.position, v1)
        q1 == QuatMul(body.quaternion, body.angularVelocity)
        lands == body.type = DYNAMIC /\ IsFinite(p1) /\ p1.n < 0
    IN IF lands
       THEN [body EXCEPT !.position = Zero, !.velocity = Zero, !.quaternion = q1,
                         !.angularVelocity =
                            IF IsFinite(body.position) /\ body.position.n > 0
                            THEN 1 ELSE 0]
       ELSE [body EXCEPT !.position = p1, !.velocity = v1, !.quaternion = q1]

\* physicsWorld.step(physicsTimeStep, deltaTime): one fixed step per elapsed
\* time unit.
RECURSIVE PhysicsStep(_, _)
PhysicsStep(body, deltaTime) ==
    IF deltaTime = 0 THEN body ELSE PhysicsStep(IntegrateBody(body), deltaTime - 1)

\* ----------------------------------------------------- animation loop
\* Controllers whose grab record is tracked by both velocity maps.
Tracked(c) ==
    /\ c \in DOMAIN grabbedObjects
    /\ c \in DOMAIN controllerLastPosition
    /\ c \in DOMAIN controllerVelocity

VelocityEstimate_NoDivide(position, lastPos, deltaTime) ==
    NumSub(Fin(position), Fin(lastPos))

VelocityEstimate(position, lastPos, deltaTime) ==
    NumDiv(NumSub(Fin(position), Fin(lastPos)), deltaTime)

KinematicSync_PositionOnly(body, pose) ==
    IF body.type = KINEMATIC
    THEN [body EXCEPT !.position = Fin(pose.position)]
    ELSE body

\* Body after the kinematic push from the controller pose `pose'.
KinematicSync(body, pose) ==
    IF body.type = KINEMATIC
    THEN [body EXCEPT !.position = Fin(pose.position), !.quaternion = pose.quaternion]
    ELSE body

\* grabbedObjects.forEach of animate, over the bodies: each tracked
\* controller in turn writes its pose into its kinematic body.
RECURSIVE SyncHeldBodies(_, _, _)
SyncHeldBodies(bs, poses, i) ==
    IF i > Len(ControllerOrder) THEN bs
    ELSE LET c == ControllerOrder[i] IN
         IF Tracked(c)
         THEN SyncHeldBodies(
                [bs EXCEPT ![grabbedObjects[c].body] = KinematicSync(@, poses[c])],
                poses, i + 1)
         ELSE SyncHeldBodies(bs, poses, i + 1)

IsHeld(b) == \E c \in DOMAIN grabbedObjects : grabbedObjects[c].body = b

SyncMesh_Always(mesh, body, held) ==
    [mesh EXCEPT !.position = body.position, !.quaternion = body.quaternion]

SyncMesh_PositionOnly(mesh, body, held) ==
    IF ~held /\ body.type # KINEMATIC
    THEN [mesh EXCEPT !.position = body.position]
    ELSE mesh

\* Visual = physics for every body that is neither held nor kinematic.
SyncMesh(mesh, body, held) ==
    IF ~held /\ body.type # KINEMATIC
    THEN [mesh EXCEPT !.position = body.position, !.quaternion = body.quaternion]
    ELSE mesh

\* updateTeleportTarget; groundHit is the point where the left controller's
\* ray meets the ground, or Null.
updateTeleportTarget(groundHit) ==
    IF ~isTeleportAiming \/ groundHit = Null
    THEN /\ teleportMarkerVisible' = FALSE
         /\ teleportTargetPosition' = Null
    ELSE /\ teleportMarkerVisible' = TRUE
         /\ teleportTargetPosition' = groundHit

GroundHits == {Null, "ground"}

animate_CopyFirst(deltaTime, poses, groundHit) ==
    LET stepped == [b \in Bodies |-> PhysicsStep(bodies[b], deltaTime)]
        pushed == IF presenting THEN SyncHeldBodies(stepped, poses, 1) ELSE stepped
    IN
    /\ ctrl' = poses
    /\ IF presenting
       THEN /\ updateTeleportTarget(groundHit)
            /\ controllerVelocity' =
                 [c \in DOMAIN controllerVelocity |->
                    IF Tracked(c)
                    THEN VelocityEstimate(poses[c].position,
                                          controllerLastPosition[c], deltaTime)
                    ELSE controllerVelocity[c]]
            /\ controllerLastPosition' =
                 [c \in DOMAIN controllerLastPosition |->
                    IF Tracked(c) THEN poses[c].position
                    ELSE controllerLastPosition[c]]
       ELSE /\ UNCHANGED <<teleportMarkerVisible, teleportTargetPosition,
                           controllerLastPosition>>
            /\ controllerVelocity' = [c \in DOMAIN controllerVelocity |-> Zero]
    /\ bodies' = pushed
    /\ meshes' = [e \in Entities |->
                    SyncMesh(meshes[e], bodies[BodyAt(e)], IsHeld(BodyAt(e)))]
    /\ DesktopMovement(deltaTime)
    /\ UNCHANGED <<presenting, isTeleportAiming, grabbedObjects>>

animate(deltaTime, poses, groundHit) ==
    LET stepped == [b \in Bodies |-> PhysicsStep(bodies[b], deltaTime)]
        pushed == IF presenting THEN SyncHeldBodies(stepped, poses, 1) ELSE stepped
    IN
    /\ ctrl' = poses
    /\ IF presenting
       THEN /\ updateTeleportTarget(groundHit)
            /\ controllerVelocity' =
                 [c \in DOMAIN controllerVelocity |->
                    IF Tracked(c)
                    THEN VelocityEstimate(poses[c].position,
                                          controllerLastPosition[c], deltaTime)
                    ELSE controllerVelocity[c]]
            /\ controllerLastPosition' =
                 [c \in DOMAIN controllerLastPosition |->
                    IF Tracked(c) THEN poses[c].position
                    ELSE controllerLastPosition[c]]
       ELSE /\ UNCHANGED <<teleportMarkerVisible, teleportTargetPosition,
                           controllerLastPosition>>
            /\ controllerVelocity' = [c \in DOMAIN controllerVelocity |-> Zero]
    /\ bodies' = pushed
    /\ meshes' = [e \in Entities |->
                    SyncMesh(meshes[e], pushed[BodyAt(e)], IsHeld(BodyAt(e)))]
    /\ DesktopMovement(deltaTime)
    /\ UNCHANGED <<presenting, isTeleportAiming, grabbedObjects>>

\* ------------------------------------------------------------- events
\* The poses the input source reports for a controller: lowered and level,
\* or raised by one grid cell and turned.
CtrlPoses == {[position |-> 0, quaternion |-> 0], [position |-> Grid, quaternion |-> 1]}
Poses == [Controllers -> CtrlPoses]

Min(a, b) == IF a < b THEN a ELSE b

FrameHistory(deltaTime) ==
    LET fr == [c \in Controllers |->
                  IF presenting /\ Tracked(c) THEN Min(hist.frames[c] + 1, 2) ELSE 0]
        any == \E c \in Controllers : fr[c] > 0
    IN [hist EXCEPT !.frames = fr,
                    !.dt = IF any THEN deltaTime ELSE 0,
                    !.prev = [c \in Controllers |->
                                 IF fr[c] > 0 THEN ctrl[c].position ELSE 0]]

\* One animation frame.  Inside an XR session the controller poses are
\* refreshed from the input source before the callback runs.
\* The entity a grab-end released just before this frame pass, if any.
JustReleased == IF last.op = "SelectEnd" THEN last.released ELSE Null

\* "stepped" when the physics step of this pass moves the body of the entity
\* released just before it.
FrameNote(deltaTime) ==
    {"stepped" : e \in {f \in Entities \cap {JustReleased} :
                           PhysicsStep(bodies[BodyAt(f)], deltaTime).position
                              # bodies[BodyAt(f)].position}}

Frame ==
    \E deltaTime \in DeltaTimes :
        /\ IF presenting
           THEN \E poses \in Poses :
                    \E groundHit \in IF isTeleportAiming THEN GroundHits ELSE {Null} :
                        animate(deltaTime, poses, groundHit)
           ELSE animate(deltaTime, ctrl, Null)
        /\ UNCHANGED <<registry, loading, isLocked, moveState, lockRequest>>
        /\ last' = Event("Frame", Null, Null, FALSE, JustReleased, FALSE,
                         FrameNote(deltaTime))
        /\ hist' = FrameHistory(deltaTime)

SessionStart ==
    /\ ~presenting
    /\ presenting' = TRUE
    /\ lockRequest' = IF isLocked THEN "unlock" ELSE lockRequest
    /\ UNCHANGED <<registry, loading, isLocked, moveState, rigPosition>>
    /\ last' = NoEvent("SessionStart", Null)
    /\ UNCHANGED <<isTeleportAiming, teleportTargetPosition, teleportMarkerVisible,
                   ctrl, meshes, bodies, grabbedObjects, controllerLastPosition,
                   controllerVelocity, hist>>

DropAll ==
    [Forget(hist, Controllers) EXCEPT
        !.contended = {},
        !.dropped = hist.dropped \cup DOMAIN grabbedObjects]

\* What a reset finds: "both" when every controller holds an entity, "moved"
\* when a held body is away from its initial transform, "stale" when an
\* entity hangs on a controller that has no grab record.
ResetNote ==
    {"both" : x \in {Controllers} \cap {DOMAIN grabbedObjects}}
    \cup {"moved" : c \in {d \in DOMAIN grabbedObjects :
                              bodies[grabbedObjects[d].body].position
                                 # Fin(initialBodyY[grabbedObjects[d].object])}}
    \cup {"stale" : e \in {f \in Entities :
                              /\ meshes[f].parent \in Controllers
                              /\ meshes[f].parent \notin DOMAIN grabbedObjects}}

SessionEnd_KeepRecords ==
    /\ presenting
    /\ presenting' = FALSE
    /\ isTeleportAiming' = FALSE
    /\ teleportMarkerVisible' = FALSE
    /\ UNCHANGED <<registry, loading, isLocked, moveState, rigPosition, lockRequest>>
    /\ last' = NoEvent("SessionEnd", Null)
    /\ hist' = [DropAll EXCEPT !.squeeze = FALSE]
    /\ UNCHANGED <<teleportTargetPosition, ctrl, meshes, bodies, grabbedObjects,
                   controllerLastPosition, controllerVelocity>>

SessionEnd ==
    /\ presenting
    /\ presenting' = FALSE
    /\ grabbedObjects' = EmptyMap
    /\ controllerLastPosition' = EmptyMap
    /\ controllerVelocity' = EmptyMap
    /\ isTeleportAiming' = FALSE
    /\ teleportMarkerVisible' = FALSE
    /\ UNCHANGED <<registry, loading, isLocked, moveState, rigPosition, lockRequest>>
    /\ last' = NoEvent("SessionEnd", Null)
    /\ hist' = [DropAll EXCEPT !.squeeze = FALSE]
    /\ UNCHANGED <<teleportTargetPosition, ctrl, meshes, bodies>>

\* The body is held by a controller other than c.
HeldByOther(c, b) ==
    \E o \in DOMAIN grabbedObjects : o # c /\ grabbedObjects[o].body = b

SelectStartHistory(controller, hit) ==
    LET target == ResolveTarget(hit).body
        h == [hist EXCEPT !.dropped = @ \ {controller}]
    IN IF CanGrab(controller, hit)
       THEN [h EXCEPT !.contended = @ \ {target}]
       ELSE IF controller \notin DOMAIN grabbedObjects /\ HeldByOther(controller, target)
       THEN [h EXCEPT !.contended = @ \cup {target}]
       ELSE h

\* What the ray of a trigger press met: "nohit" when it met nothing,
\* "behind" when the nearest object belongs to an entity another controller
\* holds and an object of an entity nobody holds lies behind it, "deep" when
\* the nearest object is no direct child of its model.
HitNote(controller, intersections) ==
    {"nohit" : x \in {0} \cap {Len(intersections)}}
    \cup {"deep" : x \in {i \in {1} \cap DOMAIN intersections :
                             intersections[i] \notin Children(intersections[i].owner)}}
    \cup {"behind" : x \in {i \in {2} \cap DOMAIN intersections :
                               /\ HeldByOther(controller, BodyAt(intersections[1].owner))
                               /\ ~IsHeld(BodyAt(intersections[i].owner))}}

\* selectstart: onGrabStart, then on the left controller onTeleportSelect.
SelectStart(controller) ==
    \E intersections \in getIntersections :
        /\ presenting
        /\ onGrabStart(controller, Nearest(intersections))
        /\ IF controller = controller1 THEN onTeleportSelect
           ELSE UNCHANGED <<isTeleportAiming, teleportMarkerVisible,
                            teleportTargetPosition>>
        /\ UNCHANGED <<registry, loading, isLocked, moveState, rigPosition, lockRequest>>
        /\ last' = Event("SelectStart", controller,
                         ResolveTarget(Nearest(intersections)).body,
                         CanGrab(controller, Nearest(intersections)), Null,
                         controller = controller1 /\ WillTeleport,
                         HitNote(controller, intersections))
        /\ hist' = SelectStartHistory(controller, Nearest(intersections))
        /\ UNCHANGED <<presenting, ctrl>>

SelectEndNote(controller) ==
    IF controller \in DOMAIN grabbedObjects
    THEN {"twoFrames" : x \in {1} \cap {hist.frames[controller] - 1}}
         \cup {"noFrame" : x \in {0} \cap {hist.frames[controller]}}
         \cup {"contended" : x \in {grabbedObjects[controller].body} \cap hist.contended}
    ELSE {"dropped" : x \in {controller} \cap hist.dropped}

SelectEndHistory(controller) ==
    LET h == [Forget(hist, {controller}) EXCEPT !.dropped = @ \ {controller}]
    IN IF controller \in DOMAIN grabbedObjects
       THEN [h EXCEPT !.contended = @ \ {grabbedObjects[controller].body}]
       ELSE h

\* selectend: onGrabEnd.
SelectEnd(controller) ==
    /\ presenting
    /\ onGrabEnd(controller)
    /\ UNCHANGED <<registry, loading, isLocked, moveState, rigPosition, lockRequest>>
    /\ last' = Event("SelectEnd", controller, Null, FALSE,
                     IF controller \in DOMAIN grabbedObjects
                     THEN grabbedObjects[controller].object ELSE Null,
                     FALSE, SelectEndNote(controller))
    /\ hist' = SelectEndHistory(controller)
    /\ UNCHANGED <<presenting, isTeleportAiming, teleportTargetPosition,
                   teleportMarkerVisible, ctrl>>

\* squeezestart on the left controller: teleport aiming starts.
TeleportAimStart ==
    /\ presenting
    /\ onTeleportAimStart
    /\ UNCHANGED <<registry, loading, isLocked, moveState, rigPosition, lockRequest>>
    /\ last' = NoEvent("TeleportAimStart", controller1)
    /\ hist' = [hist EXCEPT !.squeeze = TRUE]
    /\ UNCHANGED <<presenting, teleportTargetPosition, teleportMarkerVisible, ctrl,
                   meshes, bodies, grabbedObjects, controllerLastPosition,
                   controllerVelocity>>

\* squeezeend on the left controller.
TeleportAimEnd ==
    /\ presenting
    /\ onTeleportAimEnd
    /\ UNCHANGED <<registry, loading, isLocked, moveState, rigPosition, lockRequest>>
    /\ last' = NoEvent("TeleportAimEnd", controller1)
    /\ hist' = [hist EXCEPT !.squeeze = FALSE]
    /\ UNCHANGED <<presenting, ctrl, meshes, bodies, grabbedObjects,
                   controllerLastPosition, controllerVelocity>>

\* squeezestart on the right controller: reset.
Reset ==
    /\ presenting
    /\ resetObjects
    /\ UNCHANGED <<registry, loading, isLocked, moveState, rigPosition, lockRequest>>
    /\ last' = Event("Reset", controller2, Null, FALSE, Null, FALSE, ResetNote)
    /\ hist' = DropAll
    /\ UNCHANGED <<presenting, isTeleportAiming, teleportTargetPosition,
                   teleportMarkerVisible, ctrl>>

\* One more event is handled; runs are explored up to MaxEvents events.
Tick ==
    /\ steps < MaxEvents
    /\ steps' = steps + 1

Next ==
    \/ Frame /\ Tick
    \/ SessionStart /\ Tick
    \/ SessionEnd /\ Tick
    \/ \E c \in Controllers : SelectStart(c) /\ Tick
    \/ \E c \in Controllers : SelectEnd(c) /\ Tick
    \/ TeleportAimStart /\ Tick
    \/ TeleportAimEnd /\ Tick
    \/ Reset /\ Tick

Spec == Init /\ [][Next]_vars

\* Runs observed from the moment the first XR session has started: the state
\* Init reaches by its only session start, with the event count started anew.
InitInSession ==
    /\ presenting = TRUE
    /\ isTeleportAiming = FALSE
    /\ teleportTargetPosition = Null
    /\ teleportMarkerVisible = FALSE
    /\ ctrl = [c \in Controllers |-> [position |-> 0, quaternion |-> 0]]
    /\ meshes = [e \in Entities |->
                    [parent |-> scene,
                     position |-> Fin(initialBodyY[e] - boxCenter[e]),
                     quaternion |-> 0]]
    /\ bodies = [b \in Bodies |->
                    [type |-> DYNAMIC,
                     position |-> Fin(initialBodyY[EntityAt(b)]),
                     quaternion |-> 0,
                     velocity |-> Zero,
                     angularVelocity |-> 0,
                     sleepState |-> AWAKE]]
    /\ grabbedObjects = EmptyMap
    /\ controllerLastPosition = EmptyMap
    /\ controllerVelocity = EmptyMap
    /\ registry = physicsMap
    /\ loading = LoadStart
    /\ isLocked = FALSE
    /\ moveState = NoMove
    /\ rigPosition = RigStart
    /\ lockRequest = "none"
    /\ last = NoEvent("SessionStart", Null)
    /\ hist = NoHistory
    /\ steps = 0

SpecInSession == InitInSession /\ [][Next]_vars

\* Runs in which the right controller is never used: sessions, frame passes
\* and the left controller's trigger and squeeze, up to MaxLeftEvents events.
TickLeft ==
    /\ steps < MaxLeftEvents
    /\ steps' = steps + 1

NextLeft ==
    \/ Frame /\ TickLeft
    \/ SessionStart /\ TickLeft
    \/ SessionEnd /\ TickLeft
    \/ SelectStart(controller1) /\ TickLeft
    \/ SelectEnd(controller1) /\ TickLeft
    \/ TeleportAimStart /\ TickLeft
    \/ TeleportAimEnd /\ TickLeft

SpecLeft == Init /\ [][NextLeft]_vars

\* The load callbacks, each run once per path, in any order, succeeding or
\* failing; the loading is explored on its own, before any other event.
LoadUnchanged ==
    UNCHANGED <<presenting, isTeleportAiming, teleportTargetPosition,
                teleportMarkerVisible, ctrl, meshes, bodies, grabbedObjects,
                controllerLastPosition, controllerVelocity, registry, isLocked,
                moveState, rigPosition, lockRequest, last, hist, steps>>

Loaded ==
    \E i \in loading.pending :
        /\ loading' = onLoad(loading, i)
        /\ LoadUnchanged

LoadFailed ==
    \E i \in loading.pending :
        /\ loading' = onLoadError(loading, i)
        /\ LoadUnchanged

NextLoad ==
    \/ Loaded
    \/ LoadFailed

SpecLoad == Init /\ [][NextLoad]_vars

\* Desktop use of the page: clicks, keys, the browser's pointer-lock
\* events, frame passes and sessions, up to MaxDesktopEvents events.
DesktopUnchanged ==
    UNCHANGED <<presenting, isTeleportAiming, teleportTargetPosition,
                teleportMarkerVisible, ctrl, meshes, bodies, grabbedObjects,
                controllerLastPosition, controllerVelocity, registry, loading, hist>>

\* click on the document.
Click ==
    /\ desktopClickListener
    /\ last' = NoEvent("Click", Null)
    /\ UNCHANGED <<isLocked, moveState, rigPosition>>
    /\ DesktopUnchanged

\* The user leaves pointer lock (Escape): the browser exits the lock.
Escape ==
    /\ isLocked
    /\ lockRequest' = "exit"
    /\ last' = NoEvent("Escape", Null)
    /\ UNCHANGED <<isLocked, moveState, rigPosition>>
    /\ DesktopUnchanged

\* pointerlockchange: PointerLockControls dispatches 'lock' or 'unlock' and
\* sets isLocked.
PointerLockChange ==
    /\ lockRequest # "none"
    /\ IF lockRequest = "lock"
       THEN isLocked' = TRUE /\ UNCHANGED moveState
       ELSE onUnlock /\ isLocked' = FALSE
    /\ lockRequest' = "none"
    /\ last' = Event("PointerLockChange", Null, Null, FALSE, Null, FALSE, {lockRequest})
    /\ UNCHANGED rigPosition
    /\ DesktopUnchanged

\* pointerlockerror: the browser refuses the lock.
PointerLockError ==
    /\ lockRequest = "lock"
    /\ lockRequest' = "none"
    /\ last' = NoEvent("PointerLockError", Null)
    /\ UNCHANGED <<isLocked, moveState, rigPosition>>
    /\ DesktopUnchanged

KeyDown ==
    \E code \in KeyCodes :
        /\ onKeyDown(code)
        /\ last' = Event("KeyDown", Null, Null, FALSE, Null, FALSE, {KeyFlag(code)})
        /\ UNCHANGED <<isLocked, rigPosition, lockRequest>>
        /\ DesktopUnchanged

KeyUp ==
    \E code \in KeyCodes :
        /\ onKeyUp(code)
        /\ last' = Event("KeyUp", Null, Null, FALSE, Null, FALSE, {KeyFlag(code)})
        /\ UNCHANGED <<isLocked, rigPosition, lockRequest>>
        /\ DesktopUnchanged

TickDesktop ==
    /\ steps < MaxDesktopEvents
    /\ steps' = steps + 1

NextDesktop ==
    \/ Frame /\ TickDesktop
    \/ SessionStart /\ TickDesktop
    \/ SessionEnd /\ TickDesktop
    \/ Click /\ TickDesktop
    \/ Escape /\ TickDesktop
    \/ PointerLockChange /\ TickDesktop
    \/ PointerLockError /\ TickDesktop
    \/ KeyDown /\ TickDesktop
    \/ KeyUp /\ TickDesktop

SpecDesktop == Init /\ [][NextDesktop]_vars

TypeOK ==
    /\ presenting \in BOOLEAN
    /\ isTeleportAiming \in BOOLEAN
    /\ DOMAIN grabbedObjects \subseteq Controllers
    /\ \A c \in DOMAIN grabbedObjects :
          grabbedObjects[c].object \in Entities /\ grabbedObjects[c].body \in Bodies

\* ============================================================ properties
GrabState == <<grabbedObjects, bodies, meshes, controllerLastPosition, controllerVelocity>>

\* The step just taken is the named handler running for controller c.
Handled(op, c) == last'.op = op /\ last'.c = c

\* C1. Mutual exclusion: in every reachable state no physics body (and no
\* entity) is referenced by the grab records of two different controllers, and
\* the records are keyed by controller, one per controller at most.
C1_MutualExclusion ==
    /\ DOMAIN grabbedObjects \subseteq Controllers
    /\ \A a \in DOMAIN grabbedObjects : \A b \in DOMAIN grabbedObjects :
          a # b => /\ grabbedObjects[a].body # grabbedObjects[b].body
                   /\ grabbedObjects[a].object # grabbedObjects[b].object

\* Both controllers hold an entity at the same time.
C1_Witness ==
    /\ DOMAIN grabbedObjects = Controllers
    /\ last.op = "SelectStart" /\ last.ok

\* C2. First grab wins: a grab-start on controller b whose ray resolves to a
\* body held by another controller changes no grab record, no body (mode,
\* velocities), no entity's parent or transform and no velocity-tracking
\* entry; b stays without a record.
C2_FirstGrabWins ==
    [][\A b \in Controllers :
          (Handled("SelectStart", b) /\ HeldByOther(b, last'.target))
             => UNCHANGED GrabState]_vars

\* The right controller, idle, has just aimed at the body the left one holds.
C2_Witness ==
    /\ last.op = "SelectStart" /\ last.c = controller2 /\ ~last.ok
    /\ controller2 \notin DOMAIN grabbedObjects
    /\ HeldByOther(controller2, last.target)

\* C3. Re-entrant grab-start is a no-op: a grab-start on a controller that
\* already has a grab record changes no grab record, velocity-tracking entry,
\* body or entity, whatever the ray hits.
C3_ReentrantGrabStart ==
    [][\A c \in Controllers :
          (Handled("SelectStart", c) /\ c \in DOMAIN grabbedObjects)
             => UNCHANGED GrabState]_vars

\* A holding controller has just pressed the trigger while aiming at another
\* entity that nobody holds.
C3_Witness ==
    /\ last.op = "SelectStart" /\ ~last.ok
    /\ last.c \in DOMAIN grabbedObjects
    /\ last.target \notin {Null, grabbedObjects[last.c].body}
    /\ ~IsHeld(last.target)

\* C4. A grab-start on an idle, ungated controller c whose ray resolves to a
\* body that no controller holds leaves: a record for c with that body and
\* its entity, the body Kinematic with zero linear and angular velocity, the
\* entity parented to c, c's position sample equal to c's current position
\* and c's velocity estimate zero.
C4_GrabEffect ==
    [][\A c \in Controllers :
          (/\ Handled("SelectStart", c)
           /\ c \notin DOMAIN grabbedObjects
           /\ ~(c = controller1 /\ isTeleportAiming)
           /\ last'.target # Null
           /\ ~IsHeld(last'.target))
             => /\ c \in DOMAIN grabbedObjects'
                /\ grabbedObjects'[c] =
                      [object |-> EntityAt(last'.target), body |-> last'.target]
                /\ bodies'[last'.target].type = KINEMATIC
                /\ bodies'[last'.target].velocity = Zero
                /\ bodies'[last'.target].angularVelocity = 0
                /\ meshes'[EntityAt(last'.target)].parent = c
                /\ c \in DOMAIN controllerLastPosition'
                /\ controllerLastPosition'[c] = ctrl'[c].position
                /\ c \in DOMAIN controllerVelocity'
                /\ controllerVelocity'[c] = Zero]_vars

\* A grab has just succeeded on a raised controller.
C4_Witness ==
    /\ last.op = "SelectStart" /\ last.ok
    /\ last.c \in DOMAIN grabbedObjects
    /\ ctrl[last.c].position # 0

\* C5. World-transform continuity: a grab-start or grab-end leaves the world
\* position and orientation of every entity (with a finite position) as they
\* were; re-parenting changes the parent only.
C5_WorldContinuity ==
    [][(last'.op \in {"SelectStart", "SelectEnd"})
          => \A e \in Entities :
                IsFinite(WorldOf(meshes[e]).position)
                   => WorldOf(meshes[e])' = WorldOf(meshes[e])]_vars

\* An entity has just been released from a raised, turned controller.
C5_Witness ==
    /\ last.op = "SelectEnd" /\ last.released # Null
    /\ ctrl[last.c].position # 0 /\ ctrl[last.c].quaternion # 0
    /\ meshes[last.released].parent = scene
    /\ IsFinite(meshes[last.released].position)

\* C6. Kinematic body tracks the controller: at the end of every frame pass,
\* the body of every grab record has the position and the orientation of the
\* controller that holds it.
C6_KinematicTracksController ==
    last.op = "Frame" =>
        \A c \in DOMAIN grabbedObjects :
            /\ bodies[grabbedObjects[c].body].position = Fin(ctrl[c].position)
            /\ bodies[grabbedObjects[c].body].quaternion = ctrl[c].quaternion

\* A frame pass has just run while a raised, turned controller holds a body.
C6_Witness ==
    /\ last.op = "Frame"
    /\ \E c \in DOMAIN grabbedObjects :
          ctrl[c].position # 0 /\ ctrl[c].quaternion # 0

\* C7. Released body receives the last velocity estimate: when controller c
\* has held its body over two frame passes, the latest one dt > 0 after the
\* other, and grab-end arrives before any further frame pass, the body's
\* linear velocity after the release is v with v * dt = P1 - P0, where P0 and
\* P1 are c's positions at the two passes.
C7_ThrowVelocity ==
    [][\A c \in Controllers :
          (/\ Handled("SelectEnd", c)
           /\ c \in DOMAIN grabbedObjects
           /\ hist.frames[c] = 2
           /\ hist.dt > 0)
             => /\ IsFinite(bodies'[grabbedObjects[c].body].velocity)
                /\ bodies'[grabbedObjects[c].body].velocity.n * hist.dt
                      = ctrl[c].position - hist.prev[c]]_vars

\* A body has just been thrown with a speed below one grid cell per time
\* unit, after two frame passes in the hand.
C7_Witness ==
    /\ last.op = "SelectEnd" /\ last.released # Null
    /\ "twoFrames" \in last.note
    /\ LET v == bodies[BodyAt(last.released)].velocity
       IN IsFinite(v) /\ v.n # 0 /\ v.n < Grid /\ 0 - v.n < Grid

\* C8. Grab / contend / throw: when controller a holds entity E, another,
\* idle controller has tried to grab E and was refused, and a then grab-ends
\* with velocity estimate v, then E's body is Dynamic and awake with linear
\* velocity v, E is parented to the scene root, a has no grab record and no
\* velocity-tracking entry, and the other controller is still idle.
C8_GrabContendThrow ==
    [][\A a \in Controllers :
          (/\ Handled("SelectEnd", a)
           /\ a \in DOMAIN grabbedObjects
           /\ grabbedObjects[a].body \in hist.contended)
             => /\ a \in DOMAIN controllerVelocity
                /\ bodies'[grabbedObjects[a].body].type = DYNAMIC
                /\ bodies'[grabbedObjects[a].body].sleepState = AWAKE
                /\ bodies'[grabbedObjects[a].body].velocity = controllerVelocity[a]
                /\ meshes'[grabbedObjects[a].object].parent = scene
                /\ a \notin DOMAIN grabbedObjects'
                /\ a \notin DOMAIN controllerLastPosition'
                /\ a \notin DOMAIN controllerVelocity'
                /\ \A o \in Controllers \ {a} :
                      o \notin DOMAIN grabbedObjects
                         => o \notin DOMAIN grabbedObjects']_vars

\* The contended entity has just been thrown with a non-zero velocity while
\* the other controller holds nothing.
C8_Witness ==
    /\ last.op = "SelectEnd" /\ last.released # Null
    /\ "contended" \in last.note
    /\ bodies[BodyAt(last.released)].velocity # Zero
    /\ bodies[BodyAt(last.released)].type = DYNAMIC
    /\ DOMAIN grabbedObjects = {}

\* C9. No angular velocity is transferred by a throw: a grab-end writes only
\* the released body's mode, sleep state and linear velocity.  Its angular
\* velocity after the release is the one before it, which is zero; position
\* and orientation are not written, and no other body changes.
C9_NoAngularTransfer ==
    [][\A c \in Controllers :
          (Handled("SelectEnd", c) /\ c \in DOMAIN grabbedObjects)
             => LET b == grabbedObjects[c].body
                IN /\ bodies[b].angularVelocity = 0
                   /\ bodies'[b].angularVelocity = bodies[b].angularVelocity
                   /\ [bodies'[b] EXCEPT !.type = bodies[b].type,
                                         !.sleepState = bodies[b].sleepState,
                                         !.velocity = bodies[b].velocity] = bodies[b]
                   /\ \A o \in Bodies \ {b} : bodies'[o] = bodies[o]]_vars

\* A body has just been thrown with a finite non-zero linear velocity and
\* spins not.
C9_Witness ==
    /\ last.op = "SelectEnd" /\ last.released # Null
    /\ IsFinite(bodies[BodyAt(last.released)].velocity)
    /\ bodies[BodyAt(last.released)].velocity.n # 0
    /\ bodies[BodyAt(last.released)].angularVelocity = 0

\* C10. Grab-end on a controller with no grab record is a no-op: no body, no
\* entity, no grab record and no velocity-tracking entry changes; this
\* includes a grab-end arriving after a reset or session end removed the
\* controller's record.
C10_GrabEndWithoutRecord ==
    [][\A c \in Controllers :
          (Handled("SelectEnd", c) /\ c \notin DOMAIN grabbedObjects)
             => UNCHANGED GrabState]_vars

\* A grab-end has just arrived on a controller whose record a reset or a
\* session end had removed.
C10_Witness ==
    /\ last.op = "SelectEnd" /\ last.released = Null
    /\ "dropped" \in last.note
    /\ presenting

\* The step just taken is the reset handler.
Resetting == last'.op = "Reset"

\* The initial transform snapshot of the body at index-aligned entity e.
Snapshot(e) == [position |-> Fin(initialBodyY[e]), quaternion |-> 0]

\* Position and orientation of a body, as a transform.
BodyTransform(b) == [position |-> bodies[b].position, quaternion |-> bodies[b].quaternion]

\* C11. Reset clears all grab state: a reset in a state where both
\* controllers hold an entity leaves no grab record and no velocity-tracking
\* entry; every body, held before or not, has the position and orientation
\* of its initial transform snapshot and zero linear and angular velocity;
\* the bodies that were held are Dynamic.
C11_ResetClearsGrabState ==
    [][(Resetting /\ DOMAIN grabbedObjects = Controllers)
          => /\ DOMAIN grabbedObjects' = {}
             /\ DOMAIN controllerLastPosition' = {}
             /\ DOMAIN controllerVelocity' = {}
             /\ \A e \in Entities :
                   /\ BodyTransform(BodyAt(e))' = Snapshot(e)
                   /\ bodies'[BodyAt(e)].velocity = Zero
                   /\ bodies'[BodyAt(e)].angularVelocity = 0
             /\ \A c \in Controllers :
                   bodies'[grabbedObjects[c].body].type = DYNAMIC]_vars

\* A reset has just run while both controllers held an entity, one of them
\* carried away from its initial place.
C11_Witness ==
    /\ last.op = "Reset"
    /\ {"both", "moved"} \subseteq last.note
    /\ DOMAIN grabbedObjects = {}

\* C12. Reset restores visuals: a reset in a state where both controllers
\* hold an entity leaves the world transform of each of those entities equal
\* to its initial transform snapshot.
C12_ResetRestoresVisuals ==
    [][(Resetting /\ DOMAIN grabbedObjects = Controllers)
          => \A e \in Entities :
                (\E c \in Controllers : grabbedObjects[c].object = e)
                   => WorldOf(meshes[e])' = Snapshot(e)]_vars

\* C13. After a reset, in whatever state it was invoked, every entity is a
\* child of the scene root.
C13_ResetDetachesAll ==
    last.op = "Reset" => \A e \in Entities : meshes[e].parent = scene

\* C14. Reset returns all objects to their initial positions: at the end of
\* the frame pass that follows a reset, in whatever state the reset was
\* invoked, every entity's visual (world) transform equals its body's
\* transform.
C14_ResetShownNextFrame ==
    [][(last.op = "Reset" /\ last'.op = "Frame")
          => \A e \in Entities :
                WorldOf(meshes[e])' = BodyTransform(BodyAt(e))']_vars

\* C15. Every unheld entity is driven by its body: at the end of every frame
\* pass, each entity whose body no grab record references has a visual
\* (world) transform equal to its body's position and orientation.
C15_UnheldDrivenByBody ==
    last.op = "Frame" =>
        \A e \in Entities :
            ~IsHeld(BodyAt(e)) => WorldOf(meshes[e]) = BodyTransform(BodyAt(e))

\* C16. Unheld dynamic bodies drive visuals: in each frame pass, for each
\* entity whose body no grab record references and is not Kinematic, the
\* visual is a child of the scene and its transform after the pass is the
\* body's position and orientation after the pass; where visual and body
\* agreed before the pass, the visual's height changes by exactly what the
\* body's height changes.
C16_BodyDrivesVisual ==
    [][(last'.op = "Frame")
          => \A e \in Entities :
                (~IsHeld(BodyAt(e)) /\ bodies[BodyAt(e)].type # KINEMATIC)
                   => /\ meshes'[e].parent = scene
                      /\ meshes'[e].position = bodies'[BodyAt(e)].position
                      /\ meshes'[e].quaternion = bodies'[BodyAt(e)].quaternion
                      /\ (/\ meshes[e].position = bodies[BodyAt(e)].position
                          /\ IsFinite(bodies[BodyAt(e)].position)
                          /\ IsFinite(bodies'[BodyAt(e)].position))
                            => meshes'[e].position.n - meshes[e].position.n
                                  = bodies'[BodyAt(e)].position.n
                                       - bodies[BodyAt(e)].position.n]_vars

\* A frame pass has just run in which an entity nobody holds fell: its body
\* is Dynamic, below its initial height and moving down, clear of the floor
\* contact, and the visual shows it there.
C16_Witness ==
    /\ last.op = "Frame"
    /\ \E e \in Entities :
          /\ ~IsHeld(BodyAt(e))
          /\ bodies[BodyAt(e)].type = DYNAMIC
          /\ IsFinite(bodies[BodyAt(e)].position)
          /\ bodies[BodyAt(e)].position.n < initialBodyY[e]
          /\ IsFinite(bodies[BodyAt(e)].velocity)
          /\ bodies[BodyAt(e)].velocity.n < 0
          /\ meshes[e].parent = scene
          /\ meshes[e].position = bodies[BodyAt(e)].position

\* C17. Degenerate velocity sample: no velocity estimate and no body
\* velocity is ever infinite or NaN, and after a frame pass that ran with
\* deltaTime zero while a controller holds a body, that controller's
\* velocity estimate is zero.
C17_DegenerateSample ==
    /\ \A c \in DOMAIN controllerVelocity : IsFinite(controllerVelocity[c])
    /\ \A b \in Bodies : IsFinite(bodies[b].velocity)
    /\ (last.op = "Frame" /\ hist.dt = 0)
          => \A c \in DOMAIN controllerVelocity :
                hist.frames[c] > 0 => controllerVelocity[c] = Zero

\* C18. Gate rejection: a grab-start on the left controller while teleport
\* aiming is active changes no grab record, no body, no entity and no
\* velocity-tracking entry, whatever the ray hits.
C18_GateRejection ==
    [][(Handled("SelectStart", controller1) /\ isTeleportAiming)
          => UNCHANGED GrabState]_vars

\* The idle left controller has just pressed the trigger on a free entity
\* while aiming a teleport, and holds nothing.
C18_Witness ==
    /\ last.op = "SelectStart" /\ last.c = controller1 /\ ~last.ok
    /\ isTeleportAiming \/ last.teleported
    /\ hist.squeeze
    /\ controller1 \notin DOMAIN grabbedObjects
    /\ last.target # Null /\ ~IsHeld(last.target)

\* C19. On the left controller grabbing is prevented whenever squeeze is
\* active: a trigger press on the left controller between a squeezestart and
\* the matching squeezeend never creates a grab record, also after a
\* teleport performed during the same squeeze.
C19_NoGrabWhileSqueezing ==
    [][(Handled("SelectStart", controller1) /\ hist.squeeze)
          => grabbedObjects' = grabbedObjects]_vars

\* C20. Dual-wielding independence: a grab-start or grab-end handled for one
\* controller leaves the other controller's grab record, velocity-tracking
\* entries, held body and held entity (its parent and transform) as they
\* were.
C20_DualWielding ==
    [][\A c \in Controllers :
          (last'.op \in {"SelectStart", "SelectEnd"} /\ last'.c = c)
             => \A o \in DOMAIN grabbedObjects \ {c} :
                   /\ o \in DOMAIN grabbedObjects'
                   /\ grabbedObjects'[o] = grabbedObjects[o]
                   /\ o \in DOMAIN controllerLastPosition
                         => /\ o \in DOMAIN controllerLastPosition'
                            /\ controllerLastPosition'[o] = controllerLastPosition[o]
                   /\ o \in DOMAIN controllerVelocity
                         => /\ o \in DOMAIN controllerVelocity'
                            /\ controllerVelocity'[o] = controllerVelocity[o]
                   /\ bodies'[grabbedObjects[o].body] = bodies[grabbedObjects[o].body]
                   /\ meshes'[grabbedObjects[o].object]
                         = meshes[grabbedObjects[o].object]]_vars

\* Both controllers held distinct entities and one has just thrown its own;
\* the other still holds, its body Kinematic and its entity on the
\* controller, with its velocity tracking in place.
C20_Witness ==
    /\ last.op = "SelectEnd" /\ last.released # Null
    /\ \E o \in DOMAIN grabbedObjects \ {last.c} :
          /\ grabbedObjects[o].object # last.released
          /\ bodies[grabbedObjects[o].body].type = KINEMATIC
          /\ meshes[grabbedObjects[o].object].parent = o
          /\ o \in DOMAIN controllerLastPosition
          /\ o \in DOMAIN controllerVelocity

\* ---------------------------------------------------------------------
\* C21: a left trigger press changes the reference space only if, at that
\* moment, the left squeeze is held and the teleport marker is visible,
\* also in runs that span a session end and a new session start.
C21_TeleportOnlyWhileAiming ==
    [][(Handled("SelectStart", controller1) /\ last'.teleported)
          => (hist.squeeze /\ teleportMarkerVisible)]_vars

\* ---------------------------------------------------------------------
\* C22: the registry maps an entity and every registered descendant of it to
\* one and the same body, the body loaded with that entity, and no event
\* (grab, release, reset, session start or end, frame pass) adds, removes
\* or changes an entry of it.
C22_RegistryStable ==
    [][/\ \A n \in DOMAIN registry :
             /\ Root(n.owner) \in DOMAIN registry
             /\ registry[n] = registry[Root(n.owner)]
             /\ registry[n] = BodyAt(n.owner)
       /\ registry' = registry]_vars

\* A frame pass after a reset or session end took a grab record away: grab,
\* reset or session event and frame pass have all happened.
C22_Witness ==
    /\ last.op = "Frame"
    /\ hist.dropped # {}
    /\ \E n \in DOMAIN registry : n.part = "submesh" /\ registry[n] = registry[Root(n.owner)]

\* ---------------------------------------------------------------------
\* C23: a grab-start whose ray hits nothing, or whose hit resolves to no
\* registered entity, changes nothing: no grab record, no body, no visual,
\* no velocity sample changes and the controller is as idle as before.
C23_NoHitNoGrab ==
    [][\A c \in Controllers :
          (Handled("SelectStart", c) /\ ("nohit" \in last'.note \/ last'.target = Null)) =>
              /\ UNCHANGED GrabState
              /\ ~last'.ok]_vars

\* An idle controller that is not aiming pressed the trigger at nothing.
C23_Witness ==
    /\ last.op = "SelectStart"
    /\ "nohit" \in last.note
    /\ last.target = Null
    /\ last.c \notin DOMAIN grabbedObjects
    /\ ~(last.c = controller1 /\ hist.squeeze)

\* ---------------------------------------------------------------------
\* C26: whatever object of an entity the ray hits (a direct child, a mesh
\* below a registered mesh, a mesh below an unregistered group, a line), and
\* whether the entity hangs in the scene or on a controller, the walk up
\* the ancestors ends with the owning entity and that entity's body.
C26_OwnerResolution ==
    \A n \in EntityNodes :
        Raycastable(n) =>
            ResolveTarget(n) = [object |-> n.owner, body |-> BodyAt(n.owner)]

\* A grab through an object that is no direct child of its model succeeded;
\* the entity now hangs on the controller and still resolves.
C26_Witness ==
    /\ last.op = "SelectStart"
    /\ last.ok
    /\ "deep" \in last.note
    /\ \E e \in Entities :
          /\ meshes[e].parent = last.c
          /\ ResolveTarget(Node(e, "submesh")).object = e

\* ---------------------------------------------------------------------
\* C27: only the nearest hit counts.  When it belongs to an entity held by
\* the other controller, the grab-start changes nothing, even though an
\* entity nobody holds lies farther along the ray.
C27_NearestHitOnly ==
    [][\A c \in Controllers :
          (Handled("SelectStart", c) /\ "behind" \in last'.note) =>
              /\ UNCHANGED GrabState
              /\ ~last'.ok
              /\ (c \notin DOMAIN grabbedObjects => c \notin DOMAIN grabbedObjects')]_vars

\* An idle controller outside the gate pressed at a held entity with a free
\* one behind it.
C27_Witness ==
    /\ last.op = "SelectStart"
    /\ "behind" \in last.note
    /\ ~last.ok
    /\ last.c \notin DOMAIN grabbedObjects
    /\ ~(last.c = controller1 /\ hist.squeeze)
    /\ \E e \in Entities : ~IsHeld(BodyAt(e))

\* ---------------------------------------------------------------------
\* C25 as stated: a reset first forces every holding controller to idle
\* (entity detached to the scene, body Dynamic) and only afterwards copies
\* the snapshot into the bodies.  So when the snapshot copy starts, every
\* recorded entity hangs in the scene and its body is Dynamic.
C25_ReleaseBeforeSnapshot ==
    [][Resetting =>
          \A c \in DOMAIN grabbedObjects :
              /\ StateBefore("snapshot", ResetState, resetObjectsOrder, 1)
                    .bodies[grabbedObjects[c].body].type = DYNAMIC
              /\ StateBefore("snapshot", ResetState, resetObjectsOrder, 1)
                    .meshes[grabbedObjects[c].object].parent = scene]_vars

\* C25 amended: a reset copies the snapshot into the bodies first, while
\* the held entities still hang on their controllers and their bodies still
\* have the type they were held with; then it detaches the recorded
\* entities and makes their bodies Dynamic; the records and velocity
\* samples are cleared last.  The state the reset leaves is the one the
\* stated order (release, snapshot, clear) would leave.
C25_SnapshotBeforeRelease ==
    [][Resetting =>
          /\ StateBefore("snapshot", ResetState, resetObjectsOrder, 1) = ResetState
          /\ \A c \in DOMAIN grabbedObjects :
                /\ StateBefore("release", ResetState, resetObjectsOrder, 1)
                      .bodies[grabbedObjects[c].body]
                   = SnapshotBody(bodies[grabbedObjects[c].body],
                                  IndexOf(grabbedObjects[c].object))
                /\ StateBefore("release", ResetState, resetObjectsOrder, 1)
                      .meshes[grabbedObjects[c].object] = meshes[grabbedObjects[c].object]
                /\ StateBefore("clear", ResetState, resetObjectsOrder, 1)
                      .bodies[grabbedObjects[c].body].type = DYNAMIC
                /\ StateBefore("clear", ResetState, resetObjectsOrder, 1)
                      .meshes[grabbedObjects[c].object].parent = scene
          /\ StateBefore("clear", ResetState, resetObjectsOrder, 1).grabbedObjects
                = grabbedObjects
          /\ bodies' = RunStages(ResetState, <<"release", "snapshot", "clear">>, 1).bodies
          /\ meshes' = RunStages(ResetState, <<"release", "snapshot", "clear">>, 1).meshes
          /\ grabbedObjects' = EmptyMap
          /\ controllerLastPosition' = EmptyMap
          /\ controllerVelocity' = EmptyMap]_vars

\* A reset taken while a controller held a body it had carried away from
\* its initial place: the entity is back in the scene, its body Dynamic at
\* the snapshot.
C25_Witness ==
    /\ last.op = "Reset"
    /\ "moved" \in last.note
    /\ \E e \in Entities :
          /\ meshes[e].position # Fin(initialBodyY[e] - boxCenter[e])
          /\ meshes[e].parent = scene
          /\ bodies[BodyAt(e)].type = DYNAMIC
          /\ bodies[BodyAt(e)].position = Fin(initialBodyY[e])

C28_GatePerController ==
    [][/\ (/\ Handled("SelectStart", controller2)
           /\ isTeleportAiming
           /\ controller2 \notin DOMAIN grabbedObjects
           /\ last'.target # Null
           /\ ~IsHeld(last'.target))
          => /\ controller2 \in DOMAIN grabbedObjects'
             /\ grabbedObjects'[controller2].body = last'.target
             /\ bodies'[last'.target].type = KINEMATIC
       /\ (/\ Handled("SelectEnd", controller1)
           /\ isTeleportAiming
           /\ controller1 \in DOMAIN grabbedObjects)
          => /\ controller1 \notin DOMAIN grabbedObjects'
             /\ \A e \in Entities :
                   grabbedObjects[controller1].object = e
                      => /\ meshes'[e].parent = scene
                         /\ bodies'[BodyAt(e)].type = DYNAMIC]_vars

\* The right controller took an entity while the left one was aiming and
\* holding another entity.
C28_Witness ==
    /\ last.op = "SelectStart" /\ last.c = controller2 /\ last.ok
    /\ isTeleportAiming
    /\ hist.squeeze
    /\ Controllers \subseteq DOMAIN grabbedObjects
    /\ grabbedObjects[controller2].body = last.target

\* ---------------------------------------------------------------------
\* C29: on a left trigger press the grab handler runs before the teleport
\* handler, so the gate sees the aiming flag before the teleport clears
\* it: one press never both creates a grab record and teleports.
C29_GrabThenTeleport ==
    [][Handled("SelectStart", controller1) =>
          /\ ~(/\ last'.teleported
               /\ controller1 \notin DOMAIN grabbedObjects
               /\ controller1 \in DOMAIN grabbedObjects')
          /\ last'.teleported => UNCHANGED GrabState
          /\ last'.ok => (~last'.teleported /\ controller1 \in DOMAIN grabbedObjects')]_vars

\* A left press that teleported while the ray pointed at an entity nobody
\* held: the idle controller made no record.
C29_Witness ==
    /\ last.op = "SelectStart" /\ last.c = controller1
    /\ last.teleported
    /\ ~isTeleportAiming
    /\ last.target # Null /\ ~IsHeld(last.target)
    /\ DOMAIN grabbedObjects = {}

\* ---------------------------------------------------------------------
\* C30: a grab-end that follows its grab-start with no frame pass between
\* them releases the body with linear velocity zero.
C30_ReleaseWithoutFrame ==
    [][\A c \in Controllers, b \in Bodies :
          (/\ Handled("SelectEnd", c)
           /\ c \in DOMAIN grabbedObjects
           /\ grabbedObjects[c].body = b
           /\ hist.frames[c] = 0)
             => /\ bodies'[b].velocity = Zero
                /\ bodies'[b].type = DYNAMIC]_vars

\* A controller away from the origin released what it had just grabbed, no
\* frame pass between.
C30_Witness ==
    /\ last.op = "SelectEnd" /\ last.released # Null
    /\ "noFrame" \in last.note
    /\ ctrl[last.c].position # 0
    /\ bodies[BodyAt(last.released)].velocity = Zero
    /\ bodies[BodyAt(last.released)].type = DYNAMIC

\* ---------------------------------------------------------------------
\* C31: a frame pass does not write the visual of a held entity: for every
\* entity whose body a grab record references, the entity's parent and
\* local transform are the same after the pass as before it.
C31_HeldVisualUntouched ==
    [][(last'.op = "Frame") =>
          \A e \in Entities : IsHeld(BodyAt(e)) => meshes'[e] = meshes[e]]_vars

\* After a frame pass a controller away from the origin holds an entity
\* whose visual is not where its body is.
C31_Witness ==
    /\ last.op = "Frame"
    /\ \E c \in DOMAIN grabbedObjects :
          /\ meshes[grabbedObjects[c].object].parent = c
          /\ ctrl[c].position # 0
          /\ bodies[grabbedObjects[c].body].position = Fin(ctrl[c].position)
          /\ WorldOf(meshes[grabbedObjects[c].object]).position
                # bodies[grabbedObjects[c].body].position

\* ---------------------------------------------------------------------
\* C32: grab records exist only inside an XR session: grab-start and
\* grab-end are handled only while a session runs, and whenever no session
\* runs (from a session end until the next session start, and before the
\* first one) the grab records and both velocity-tracking maps are empty.
C32_RecordsOnlyInSession ==
    [][/\ (last'.op \in {"SelectStart", "SelectEnd"}) => (presenting /\ presenting')
       /\ ~presenting =>
             /\ grabbedObjects = EmptyMap
             /\ controllerLastPosition = EmptyMap
             /\ controllerVelocity = EmptyMap
       /\ ~presenting' =>
             /\ grabbedObjects' = EmptyMap
             /\ controllerLastPosition' = EmptyMap
             /\ controllerVelocity' = EmptyMap]_vars

\* A frame pass outside a session, after a session end took a record away.
C32_Witness ==
    /\ last.op = "Frame"
    /\ ~presenting
    /\ hist.dropped # {}
    /\ grabbedObjects = EmptyMap
    /\ controllerLastPosition = EmptyMap
    /\ controllerVelocity = EmptyMap

\* ---------------------------------------------------------------------
\* C33: in every reachable state a body is Kinematic if and only if some
\* controller's grab record references it.
C33_KinematicIffHeld ==
    \A b \in Bodies : (bodies[b].type = KINEMATIC) <=> IsHeld(b)

\* ---------------------------------------------------------------------
\* C34: at the end of every frame pass the body of every held entity is
\* where the entity's visual is in the world, whatever the distance between
\* controller and entity was at grab time.
C34_HeldBodyAtVisual ==
    last.op = "Frame" =>
        \A c \in DOMAIN grabbedObjects :
            bodies[grabbedObjects[c].body].position
               = WorldOf(meshes[grabbedObjects[c].object]).position

\* ---------------------------------------------------------------------
\* C35: in every reachable state the grab records, the last sampled
\* positions and the velocity estimates have the same controllers as keys.
C35_SameKeys ==
    /\ DOMAIN controllerLastPosition = DOMAIN grabbedObjects
    /\ DOMAIN controllerVelocity = DOMAIN grabbedObjects

\* One controller released while the other went on holding: exactly the
\* holder is a key of all three maps.
C35_Witness ==
    /\ last.op = "SelectEnd" /\ last.released # Null
    /\ DOMAIN grabbedObjects = Controllers \ {last.c}
    /\ DOMAIN controllerLastPosition = Controllers \ {last.c}
    /\ DOMAIN controllerVelocity = Controllers \ {last.c}

\* ---------------------------------------------------------------------
\* C36: in every reachable state the entity of each grab record is a
\* top-level entity of the entity list and the record's body is the body
\* the registry maps that entity to.
C36_RecordsMatchRegistry ==
    \A c \in DOMAIN grabbedObjects :
        /\ \E i \in 1..Len(visualMeshes) : visualMeshes[i] = grabbedObjects[c].object
        /\ Root(grabbedObjects[c].object) \in DOMAIN registry
        /\ grabbedObjects[c].body = registry[Root(grabbedObjects[c].object)]

\* Both controllers hold; the latest grab went through a mesh that is no
\* direct child of the second model.
C36_Witness ==
    /\ last.op = "SelectStart" /\ last.ok /\ "deep" \in last.note
    /\ DOMAIN grabbedObjects = Controllers
    /\ grabbedObjects[last.c].object = visualMeshes[2]
    /\ grabbedObjects[last.c].body = registry[Root(visualMeshes[2])]

\* ---------------------------------------------------------------------
\* C37: in whatever order the load callbacks complete, and whichever of
\* them fail, the entity list, the body list and the snapshot list have
\* the same length, index i of each belongs to the same loaded model, the
\* registry maps entity i (and its mesh) to body i, and no two loaded
\* entities have the same grid slot.
C37_ListsAligned ==
    /\ Len(loading.visualMeshes) = Len(loading.physicsBodies)
    /\ Len(loading.visualMeshes) = Len(loading.initialTransforms)
    /\ \A i \in 1..Len(loading.visualMeshes) :
          /\ i \in DOMAIN loading.physicsBodies
          /\ i \in DOMAIN loading.initialTransforms
          /\ loading.physicsBodies[i].gltf = loading.visualMeshes[i].gltf
          /\ loading.initialTransforms[i]
                = [x |-> loading.physicsBodies[i].x, z |-> loading.physicsBodies[i].z]
          /\ ModelUuid(loading.visualMeshes[i].gltf) \in DOMAIN loading.physicsMap
          /\ loading.physicsMap[ModelUuid(loading.visualMeshes[i].gltf)]
                = loading.physicsBodies[i]
          /\ MeshUuid(loading.visualMeshes[i].gltf) \in DOMAIN loading.physicsMap
          /\ loading.physicsMap[MeshUuid(loading.visualMeshes[i].gltf)]
                = loading.physicsBodies[i]
          /\ \A j \in 1..Len(loading.visualMeshes) :
                i # j =>
                   /\ loading.visualMeshes[i].gltf # loading.visualMeshes[j].gltf
                   /\ <<loading.visualMeshes[i].x, loading.visualMeshes[i].z>>
                         # <<loading.visualMeshes[j].x, loading.visualMeshes[j].z>>

\* Every load has completed, one of them failed, the others completed out
\* of path order and filled the first row and a slot of the second.
C37_Witness ==
    /\ loading.pending = {}
    /\ Len(loading.visualMeshes) = MaxModels - 1
    /\ Len(loading.visualMeshes) > modelsPerRow
    /\ \E i \in 1..Len(loading.visualMeshes) :
          /\ i > 1
          /\ loading.visualMeshes[i].gltf < loading.visualMeshes[i - 1].gltf
    /\ loading.visualMeshes[Len(loading.visualMeshes)].z # loading.visualMeshes[1].z

\* ---------------------------------------------------------------------
\* C38: desktop movement is active only under pointer lock: whenever the
\* pointer is not locked all four movement flags are zero; a frame pass
\* taken while it is not locked leaves the camera rig where it is; a key
\* event received while it is not locked changes nothing; and the step that
\* unlocks the pointer, also the unlock a session start asked for, leaves
\* the flags zero.
C38_MoveOnlyWhenLocked ==
    [][/\ ~isLocked => moveState = NoMove
       /\ ~isLocked' => moveState' = NoMove
       /\ (last'.op = "Frame" /\ ~isLocked) => rigPosition' = rigPosition
       /\ (last'.op \in {"KeyDown", "KeyUp"} /\ ~isLocked)
             => UNCHANGED <<moveState, rigPosition, isLocked, lockRequest>>
       /\ (isLocked /\ ~isLocked') => moveState' = NoMove]_vars

\* The unlock a session start asked for has arrived: the rig had been moved
\* diagonally under pointer lock, the session runs, the flags are zero.
C38_Witness ==
    /\ last.op = "PointerLockChange"
    /\ "unlock" \in last.note
    /\ presenting
    /\ ~isLocked
    /\ moveState = NoMove
    /\ rigPosition.x.i # 0
    /\ rigPosition.z.i # 0

====
